---- MODULE Spec2Model ----
(***************************************************************************)
(* Model of lifecycled's autoscaling lifecycle-hook listener               *)
(* (AutoscalingListener.Start) and of the termination notice handler       *)
(* (autoscalingTerminationNotice.Handle), both from autoscaling.go.        *)
(*                                                                         *)
(* Spec        one run of AutoscalingListener.Start, together with the     *)
(*             cancellation of its context and the other users of the      *)
(*             notices channel.                                            *)
(* HandleSpec  one invocation of autoscalingTerminationNotice.Handle: the  *)
(*             calling goroutine, the ticker and the heartbeat goroutine.  *)
(***************************************************************************)
EXTENDS Integers, Sequences, FiniteSets, TLC

(***************************************************************************)
(* Bounds of the model.                                                    *)
(***************************************************************************)
\* polls one run of Start may issue
MaxPolls == 2
\* items one poll may return
MaxBatch == 2
\* largest capacity of the notices channel
MaxChanCap == 1
\* ticks the ticker may fire during one Handle
MaxTicks == 2

(***************************************************************************)
(* Values.                                                                 *)
(***************************************************************************)
Nil == "nil"
Errors == {"e1", "e2"}
Results == {Nil} \cup Errors
\* the results of a call whose error the caller only logs
Logged == {Nil, "e1"}
\* the error a handler returns when it gives up because ctx was cancelled
Canceled == "context canceled"

Terminating == "autoscaling:EC2_INSTANCE_TERMINATING"
Launching == "autoscaling:EC2_INSTANCE_LAUNCHING"

\* heartbeat intervals a listener / notice may be configured with
Intervals == {0, 10}

\* the control-plane clients a listener / notice may hold
Clients == {"c1", "c2"}

(***************************************************************************)
(* JSON.  A text is [valid |-> FALSE] when it is not well-formed JSON and  *)
(* [valid |-> TRUE, doc |-> v] when it spells the JSON value v.  A value   *)
(* is a string, a number, null, or an object: the sequence of its members  *)
(* in document order, so that a key may occur twice and in any spelling.   *)
(* The key of a member is the sequence of the runes (code points) it       *)
(* spells once unquoted.  The contents s of a string value are a TLA+      *)
(* string; for the value of the envelope's Message key they are written as *)
(* the text they spell.                                                    *)
(***************************************************************************)
BadJSON == [valid |-> FALSE]

JSONText(v) == [valid |-> TRUE, doc |-> v]

Str(s) == [kind |-> "string", s |-> s]

\* a JSON number, such as 5
Num == [kind |-> "number"]

JSONNull == [kind |-> "null"]

\* the position of character c in string s, 0 when it does not occur
RECURSIVE IndexOf(_, _)
IndexOf(c, s) ==
    IF s = "" THEN 0
    ELSE IF Head(s) = c THEN 1
    ELSE LET i == IndexOf(c, Tail(s)) IN IF i = 0 THEN 0 ELSE i + 1

\* the code point of an ASCII letter, digit, space, hyphen, period, colon
\* or underscore
Ord(c) ==
    CASE IndexOf(c, "ABCDEFGHIJKLMNOPQRSTUVWXYZ") > 0 ->
           64 + IndexOf(c, "ABCDEFGHIJKLMNOPQRSTUVWXYZ")
      [] IndexOf(c, "abcdefghijklmnopqrstuvwxyz") > 0 ->
           96 + IndexOf(c, "abcdefghijklmnopqrstuvwxyz")
      [] IndexOf(c, "0123456789") > 0 -> 47 + IndexOf(c, "0123456789")
      [] c = " " -> 32
      [] c = "-" -> 45
      [] c = "." -> 46
      [] c = ":" -> 58
      [] c = "_" -> 95

\* the runes of a string of such characters
RECURSIVE Runes(_)
Runes(s) == IF s = "" THEN <<>> ELSE <<Ord(Head(s))>> \o Runes(Tail(s))

\* U+017F, the long s, and U+212A, the Kelvin sign
LongS == 383

KelvinSign == 8490

\* a member whose key is the rune sequence key
Member(key, v) == [key |-> key, val |-> v]

\* a member whose key is spelled in ASCII
KV(k, v) == Member(Runes(k), v)

JSONObject(ms) == JSONText([kind |-> "object", members |-> ms])

\* rune r of a key and rune c of a tag, c in ASCII, are equal under Unicode
\* simple case folding: they are the same rune, or the two cases of one
\* ASCII letter, or r is the long s and c is S or s, or r is the Kelvin
\* sign and c is K or k; no other rune folds onto an ASCII one
FoldsTo(r, c) ==
    \/ r = c
    \/ r \in 65..90 /\ c = r + 32
    \/ r \in 97..122 /\ c = r - 32
    \/ r = LongS /\ c \in {83, 115}
    \/ r = KelvinSign /\ c \in {75, 107}

\* a key of the document and a struct tag, the tag in ASCII, are equal
\* under Unicode simple case folding
EqualFold(key, tag) ==
    /\ Len(key) = Len(tag)
    /\ \A i \in 1..Len(key) : FoldsTo(key[i], tag[i])

\* s without its first n characters, and the characters i..j of s
Drop(s, n) == IF n >= Len(s) THEN "" ELSE SubSeq(s, n + 1, Len(s))

Slice(s, i, j) == IF j > Len(s) THEN Drop(s, i - 1) ELSE SubSeq(s, i, j)

\* the value of a decimal digit, -1 for any other character
DigitValue(c) ==
    CASE c = "0" -> 0 [] c = "1" -> 1 [] c = "2" -> 2 [] c = "3" -> 3
      [] c = "4" -> 4 [] c = "5" -> 5 [] c = "6" -> 6 [] c = "7" -> 7
      [] c = "8" -> 8 [] c = "9" -> 9 [] OTHER -> -1

\* character i of s is a decimal digit
IsDigit(s, i) == i >= 1 /\ i <= Len(s) /\ DigitValue(SubSeq(s, i, i)) >= 0

\* s has at least n characters and its first n are digits
RECURSIVE DigitsAt(_, _)
DigitsAt(s, n) ==
    n = 0 \/ (s # "" /\ DigitValue(Head(s)) >= 0 /\ DigitsAt(Tail(s), n - 1))

\* the number a string of digits spells
RECURSIVE Atoi(_)
Atoi(s) ==
    IF s = "" THEN 0
    ELSE 10 * Atoi(SubSeq(s, 1, Len(s) - 1)) + DigitValue(SubSeq(s, Len(s), Len(s)))

\* the number of digits s begins with
RECURSIVE LeadingDigits(_)
LeadingDigits(s) ==
    IF s # "" /\ DigitValue(Head(s)) >= 0 THEN 1 + LeadingDigits(Tail(s)) ELSE 0

RECURSIVE Pow10(_)
Pow10(n) == IF n = 0 THEN 1 ELSE 10 * Pow10(n - 1)

\* a time.Time: the reading of the clock and the offset of its zone from
\* UTC in seconds; ZeroTime is the zero value
Time(y, mo, d, h, mi, sec, ns, off) ==
    [year |-> y, month |-> mo, day |-> d, hour |-> h, min |-> mi, sec |-> sec,
     nsec |-> ns, offset |-> off]

ZeroTime == Time(1, 1, 1, 0, 0, 0, 0, 0)

\* the days of a month
DaysIn(month, year) ==
    CASE month = 2 ->
           IF year % 4 = 0 /\ (year % 100 # 0 \/ year % 400 = 0) THEN 29 ELSE 28
      [] month \in {4, 6, 9, 11} -> 30
      [] OTHER -> 31

\* the fraction of a second that follows the seconds, if any: a period or
\* a comma and digits, of which nine count
ParseFraction(r) ==
    IF Len(r) >= 2 /\ Head(r) \in {".", ","} /\ IsDigit(r, 2)
      THEN LET n == LeadingDigits(Tail(r))
               kept == IF n > 9 THEN 9 ELSE n
           IN  [nsec |-> Atoi(Slice(r, 2, kept + 1)) * Pow10(9 - kept),
                rest |-> Drop(r, n + 1)]
      ELSE [nsec |-> 0, rest |-> r]

\* the zone: Z, or a sign, two digits, a colon and two digits
ParseZone(z) ==
    IF z # "" /\ Head(z) = "Z"
      THEN [ok |-> TRUE, offset |-> 0, rest |-> Tail(z)]
      ELSE IF /\ Len(z) >= 6
              /\ Head(z) \in {"+", "-"}
              /\ DigitsAt(Slice(z, 2, 3), 2)
              /\ SubSeq(z, 4, 4) = ":"
              /\ DigitsAt(Slice(z, 5, 6), 2)
              /\ Atoi(Slice(z, 2, 3)) <= 24
              /\ Atoi(Slice(z, 5, 6)) <= 60
             THEN [ok |-> TRUE,
                   offset |-> (IF Head(z) = "-" THEN -1 ELSE 1)
                                * (Atoi(Slice(z, 2, 3)) * 60 + Atoi(Slice(z, 5, 6))) * 60,
                   rest |-> Drop(z, 6)]
             ELSE [ok |-> FALSE, offset |-> 0, rest |-> z]

\* time.Parse(time.RFC3339, v), as time.Time's UnmarshalJSON applies it to
\* the contents of a JSON string: four digits of year, -, two of month, -,
\* two of day, T, one or two of hour, :, two of minute, :, two of second,
\* a fraction if any, and the zone, with nothing after it; t is the zero
\* value when v is rejected
ParseRFC3339(v) ==
    LET bad == [ok |-> FALSE, t |-> ZeroTime]
    IN  IF ~(/\ DigitsAt(v, 4)
             /\ Slice(v, 5, 5) = "-"
             /\ DigitsAt(Drop(v, 5), 2)
             /\ Slice(v, 8, 8) = "-"
             /\ DigitsAt(Drop(v, 8), 2)
             /\ Slice(v, 11, 11) = "T"
             /\ IsDigit(v, 12))
          THEN bad
          ELSE LET hlen == IF IsDigit(v, 13) THEN 2 ELSE 1
                   c == Drop(v, 11 + hlen)
               IN  IF ~(/\ Slice(c, 1, 1) = ":"
                        /\ DigitsAt(Drop(c, 1), 2)
                        /\ Slice(c, 4, 4) = ":"
                        /\ DigitsAt(Drop(c, 4), 2))
                     THEN bad
                     ELSE LET year == Atoi(Slice(v, 1, 4))
                              month == Atoi(Slice(v, 6, 7))
                              day == Atoi(Slice(v, 9, 10))
                              hour == Atoi(Slice(v, 12, 11 + hlen))
                              min == Atoi(Slice(c, 2, 3))
                              sec == Atoi(Slice(c, 5, 6))
                              f == ParseFraction(Drop(c, 6))
                              z == ParseZone(f.rest)
                          IN  IF /\ month \in 1..12
                                 /\ day >= 1 /\ day <= DaysIn(month, year)
                                 /\ hour < 24 /\ min < 60 /\ sec < 60
                                 /\ z.ok /\ z.rest = ""
                                THEN [ok |-> TRUE,
                                      t |-> Time(year, month, day, hour, min, sec,
                                                 f.nsec, z.offset)]
                                ELSE bad

\* the json tags of the struct types and the Go type of each field
EnvelopeTypes ==
    [Type |-> "string", Subject |-> "string", Time |-> "time", Message |-> "string"]

MessageTypes ==
    [Time |-> "time", AutoScalingGroupName |-> "string", EC2InstanceId |-> "string",
     LifecycleActionToken |-> "string", LifecycleTransition |-> "string",
     LifecycleHookName |-> "string"]

\* the field a key of the document fills: the one tagged with the key, or
\* else one whose tag equals the key under case folding; "" when there is
\* none
FieldFor(tags, key) ==
    IF \E t \in tags : Runes(t) = key
      THEN CHOOSE t \in tags : Runes(t) = key
      ELSE IF \E t \in tags : EqualFold(key, Runes(t))
             THEN CHOOSE t \in tags : EqualFold(key, Runes(t))
             ELSE ""

\* the decoder stores value v into field f of Go type type.  null leaves
\* the field alone; a string field takes a JSON string, and any other
\* value is recorded as the error to return while decoding goes on; a
\* time.Time is assigned what the parse of a JSON string gives, the zero
\* value when the parse fails, and a failed parse or a value that is not a
\* string ends the decoding with an error
StoreValue(st, f, type, v) ==
    CASE v.kind = "null" -> st
      [] v.kind # "null" /\ type = "string" /\ v.kind = "string" ->
           [st EXCEPT !.val[f] = v.s]
      [] v.kind # "null" /\ type = "string" /\ v.kind # "string" ->
           [st EXCEPT !.err = "e1"]
      [] v.kind = "string" /\ type = "time" ->
           LET p == ParseRFC3339(v.s)
           IN  [st EXCEPT !.val[f] = p.t,
                          !.err = IF p.ok THEN @ ELSE "e1",
                          !.stop = ~p.ok]
      [] v.kind \notin {"null", "string"} /\ type = "time" ->
           [st EXCEPT !.err = "e1", !.stop = TRUE]

\* the decoder goes through the members of an object in document order
RECURSIVE DecodeMembers(_, _, _)
DecodeMembers(ms, types, st) ==
    IF ms = <<>> \/ st.stop
      THEN st
      ELSE LET f == FieldFor(DOMAIN types, Head(ms).key)
           IN  DecodeMembers(Tail(ms), types,
                             IF f = "" THEN st
                             ELSE StoreValue(st, f, types[f], Head(ms).val))

\* json.Unmarshal(text, &v) for a struct v that holds zero: a text that is
\* not well-formed is rejected before v is touched; null is accepted and
\* leaves v alone; any other value that is not an object is an error
Unmarshal(text, types, zero) ==
    IF ~text.valid
      THEN [err |-> "e1", val |-> zero]
      ELSE CASE text.doc.kind = "null" -> [err |-> Nil, val |-> zero]
             [] text.doc.kind = "object" ->
                  LET st == DecodeMembers(text.doc.members, types,
                                          [err |-> Nil, val |-> zero, stop |-> FALSE])
                  IN  [err |-> st.err, val |-> st.val]
             [] OTHER -> [err |-> "e1", val |-> zero]

\* the zero Envelope; its Message, the empty string, is not well-formed JSON
ZeroEnvelope == [Type |-> "", Subject |-> "", Time |-> ZeroTime, Message |-> BadJSON]

ZeroMessage ==
    [Time |-> ZeroTime, GroupName |-> "", InstanceID |-> "", ActionToken |-> "",
     Transition |-> "", HookName |-> ""]

\* json.Unmarshal([]byte(*m.Body), &env)
UnmarshalEnvelope(body) ==
    LET r == Unmarshal(body, EnvelopeTypes, ZeroEnvelope)
    IN  [err |-> r.err, env |-> r.val]

\* json.Unmarshal([]byte(env.Message), &msg)
UnmarshalMessage(text) ==
    LET r == Unmarshal(text, MessageTypes,
                       [Time |-> ZeroTime, AutoScalingGroupName |-> "",
                        EC2InstanceId |-> "", LifecycleActionToken |-> "",
                        LifecycleTransition |-> "", LifecycleHookName |-> ""])
    IN  [err |-> r.err,
         msg |-> [Time |-> r.val.Time,
                  GroupName |-> r.val.AutoScalingGroupName,
                  InstanceID |-> r.val.EC2InstanceId,
                  ActionToken |-> r.val.LifecycleActionToken,
                  Transition |-> r.val.LifecycleTransition,
                  HookName |-> r.val.LifecycleHookName]]

\* the timestamp the publisher puts in its documents
Stamp == Str("2016-09-14T13:19:21Z")

\* an autoscaling message as it is published
Published(id, transition, token) ==
    JSONObject(<<KV("Time", Stamp), KV("AutoScalingGroupName", Str("g")),
                 KV("EC2InstanceId", Str(id)), KV("LifecycleActionToken", Str(token)),
                 KV("LifecycleTransition", Str(transition)),
                 KV("LifecycleHookName", Str("h"))>>)

\* a message whose keys are spelled otherwise than the tags, in other case
\* and with the long s and the Kelvin sign, stamped in another zone
Respelled ==
    JSONObject(<<KV("time", Str("2016-09-14T15:19:21.5+02:00")),
                 KV("autoscalinggroupname", Str("g")),
                 Member(Runes("EC2In") \o <<LongS>> \o Runes("tanceId"), Str("i-1")),
                 Member(Runes("lifecycleactionto") \o <<KelvinSign>> \o Runes("en"),
                        Str("u")),
                 KV("lifecycletransition", Str(Terminating)),
                 KV("lifecyclehookname", Str("h"))>>)

\* the inner documents
InnerTexts ==
    { BadJSON,
      Published("i-1", Terminating, "t"),
      Respelled,
      Published("i-1", Launching, "t"),
      \* for another instance, and without the other keys
      JSONObject(<<KV("EC2InstanceId", Str("i-2")),
                   KV("LifecycleTransition", Str(Terminating))>>),
      \* a Time that is not a timestamp
      JSONObject(<<KV("Time", Str("not-a-time")), KV("EC2InstanceId", Str("i-1")),
                   KV("LifecycleTransition", Str(Terminating))>>) }

\* the envelope SNS puts around an inner document
Wrapped(t) ==
    JSONObject(<<KV("Type", Str("Notification")), KV("Subject", Str("x")),
                 KV("Time", Stamp), KV("Message", Str(t))>>)

\* the bodies of the items a poll may return
Bodies ==
    {BadJSON}
      \cup { Wrapped(t) : t \in InnerTexts \ {Respelled} }
      \cup { \* keys in upper case, and Message with the long s
             JSONObject(<<KV("TYPE", Str("Notification")), KV("SUBJECT", Str("x")),
                          KV("TIME", Stamp),
                          Member(Runes("Me") \o <<LongS, LongS>> \o Runes("age"),
                                 Str(Respelled))>>),
             \* a Time that is not a timestamp
             JSONObject(<<KV("Type", Str("Notification")),
                          KV("Time", Str("not-a-time")),
                          KV("Message", Str(Published("i-1", Terminating, "t")))>>),
             \* a Message that is not a string
             JSONObject(<<KV("Type", Str("Notification")), KV("Message", Num)>>) }

\* what the two json.Unmarshal calls of Start give for the bodies a poll
\* may return and for the texts these carry, worked out once
EnvelopeOf == [b \in Bodies |-> UnmarshalEnvelope(b)]

MessageOf == [t \in InnerTexts |-> UnmarshalMessage(t)]

(***************************************************************************)
(* State.                                                                  *)
(***************************************************************************)
VARIABLES
    \* ---- AutoscalingListener and its run of Start ----
    ctxDone,            \* ctx has been cancelled
    instanceID,         \* l.instanceID
    autoscaling,        \* l.autoscaling, the control-plane client
    heartbeatInterval,  \* l.heartbeatInterval
    chanCap,            \* capacity of the notices channel
    notices,            \* the values buffered in the notices channel
    pc,                 \* the statement Start executes next
    startRet,           \* the value Start returns, "none" until it returns
    defers,             \* the deferred calls of Start, in registration order
    nPolls,             \* GetMessages calls made
    messages,           \* messages, of the latest GetMessages
    pollErr,            \* err, of the latest GetMessages
    consecFails,        \* GetMessages calls that failed in a row, up to now
    idx,                \* position of m in messages
    acks,               \* per item of messages: the DeleteMessage calls made
    ackErr,             \* result of the DeleteMessage call for m
    env,                \* env
    msg,                \* msg
    sent,               \* the notices Start has sent, in order
    setupErr,           \* results of Create and of Subscribe
    teardown,           \* the Unsubscribe and Delete calls made, in order
    otherSent,          \* another listener has sent on the channel
    \* ---- autoscalingTerminationNotice and one call of Handle ----
    notice,             \* n, the receiver of Handle
    hpc,                \* the statement Handle executes next
    hdefers,            \* the deferred calls of Handle, in registration order
    handlerArgs,        \* the arguments of each call of handler.Execute
    handleRet,          \* the value Handle returns, "none" until it returns
    execRet,            \* the value handler.Execute returned, "none" before
    ticker,             \* "none", "running" or "stopped"
    tickerC,            \* ticks buffered in ticker.C (capacity 1)
    nTicks,             \* ticks the ticker has fired
    wpc,                \* the statement the heartbeat goroutine executes next
    calls,              \* the control-plane calls, in the order they started
    callErrs,           \* failed heartbeat calls; result of the completion call
    overlap             \* a heartbeat call and the completion call were in
                        \* progress at the same time

\* the state of a run of Start
svars == <<instanceID, autoscaling, heartbeatInterval, chanCap, notices, pc,
           startRet, defers, nPolls, messages, pollErr, consecFails, idx,
           acks, ackErr, env, msg, sent, setupErr, teardown, otherSent>>

\* the state of a call of Handle
hvars == <<notice, hpc, hdefers, handlerArgs, handleRet, execRet, ticker,
           tickerC, nTicks, wpc, calls, callErrs, overlap>>

vars == <<ctxDone, svars, hvars>>

(***************************************************************************)
(* The queue, as far as Start uses it.                                     *)
(***************************************************************************)
RECURSIVE SeqsUpTo(_, _)
SeqsUpTo(S, n) ==
    IF n = 0 THEN {<<>>}
    ELSE LET shorter == SeqsUpTo(S, n - 1)
         IN  shorter \cup { Append(s, x) : s \in { t \in shorter : Len(t) = n - 1 }, x \in S }

Batches == SeqsUpTo(Bodies, MaxBatch)

\* l.queue.GetMessages(ctx): a batch of items, or an error and no items
GetMessages ==
    { [messages |-> b, err |-> Nil] : b \in Batches }
      \cup { [messages |-> <<>>, err |-> e] : e \in Logged \ {Nil} }

(***************************************************************************)
(* AutoscalingListener.Start                                               *)
(***************************************************************************)
\* the locals of Start on entry
StartEntry ==
    /\ notices = <<>>
    /\ pc = "Create"
    /\ startRet = "none"
    /\ defers = <<>>
    /\ nPolls = 0
    /\ messages = <<>>
    /\ pollErr = Nil
    /\ consecFails = 0
    /\ idx = 0
    /\ acks = <<>>
    /\ ackErr = Nil
    /\ env = ZeroEnvelope
    /\ msg = ZeroMessage
    /\ sent = <<>>
    /\ setupErr = [Create |-> "none", Subscribe |-> "none"]
    /\ teardown = <<>>
    /\ otherSent = FALSE

\* Handle has not been called
HandleIdle ==
    /\ notice = [noticeType |-> "autoscaling", message |-> ZeroMessage,
                 autoscaling |-> Nil, heartbeatInterval |-> 0]
    /\ hpc = "Idle"
    /\ hdefers = <<>>
    /\ handlerArgs = <<>>
    /\ handleRet = "none"
    /\ execRet = "none"
    /\ ticker = "none"
    /\ tickerC = 0
    /\ nTicks = 0
    /\ wpc = "NotStarted"
    /\ calls = <<>>
    /\ callErrs = [heartbeat |-> 0, complete |-> "none"]
    /\ overlap = FALSE

\* the listener as NewAutoscalingListener returns it, Start just called
StartInit ==
    \* the documents name this instance and one other
    /\ instanceID = "i-1"
    \* Start only copies the client and the interval into the notice: one
    \* value of each, not the zero value, is enough to tell a notice that
    \* carries it from one that does not
    /\ autoscaling = "c1"
    /\ heartbeatInterval = 10
    /\ chanCap \in 0..MaxChanCap
    /\ StartEntry

Init ==
    /\ ctxDone = FALSE
    /\ StartInit
    /\ HandleIdle

\* a return statement: the deferred calls run next, if there are any
AfterReturn(ds) == IF ds = <<>> THEN "Done" ELSE "Deferred"

\* variant: Delete is deferred before the result of Create is looked at
CreateDefersFirst ==
    /\ pc = "Create"
    /\ \E err \in Results :
         /\ setupErr' = [setupErr EXCEPT !.Create = err]
         /\ defers' = Append(defers, "Delete")
         /\ IF err # Nil
              THEN /\ startRet' = err
                   /\ pc' = "Deferred"
              ELSE /\ startRet' = startRet
                   /\ pc' = "Subscribe"
    /\ UNCHANGED <<hvars, instanceID, autoscaling, heartbeatInterval, ctxDone, chanCap, notices,
                   nPolls, messages, pollErr, consecFails, idx, acks, ackErr,
                   env, msg, sent, teardown, otherSent>>

\* if err := l.queue.Create(); err != nil { return err }; defer Delete
Create ==
    /\ pc = "Create"
    /\ \E err \in Results :
         /\ setupErr' = [setupErr EXCEPT !.Create = err]
         /\ IF err # Nil
              THEN /\ startRet' = err
                   /\ pc' = AfterReturn(defers)
                   /\ defers' = defers
              ELSE /\ startRet' = startRet
                   /\ pc' = "Subscribe"
                   /\ defers' = Append(defers, "Delete")
    /\ UNCHANGED <<hvars, instanceID, autoscaling, heartbeatInterval, ctxDone, chanCap, notices,
                   nPolls, messages, pollErr, consecFails, idx, acks, ackErr,
                   env, msg, sent, teardown, otherSent>>

\* variant: a failure of Subscribe ends Start without an error
SubscribeSwallowsErr ==
    /\ pc = "Subscribe"
    /\ \E err \in Results :
         /\ setupErr' = [setupErr EXCEPT !.Subscribe = err]
         /\ IF err # Nil
              THEN /\ startRet' = Nil
                   /\ pc' = AfterReturn(defers)
                   /\ defers' = defers
              ELSE /\ startRet' = startRet
                   /\ pc' = "Select"
                   /\ defers' = Append(defers, "Unsubscribe")
    /\ UNCHANGED <<hvars, instanceID, autoscaling, heartbeatInterval, ctxDone, chanCap, notices,
                   nPolls, messages, pollErr, consecFails, idx, acks, ackErr,
                   env, msg, sent, teardown, otherSent>>

\* if err := l.queue.Subscribe(); err != nil { return err }; defer Unsubscribe
Subscribe ==
    /\ pc = "Subscribe"
    /\ \E err \in Results :
         /\ setupErr' = [setupErr EXCEPT !.Subscribe = err]
         /\ IF err # Nil
              THEN /\ startRet' = err
                   /\ pc' = AfterReturn(defers)
                   /\ defers' = defers
              ELSE /\ startRet' = startRet
                   /\ pc' = "Select"
                   /\ defers' = Append(defers, "Unsubscribe")
    /\ UNCHANGED <<hvars, instanceID, autoscaling, heartbeatInterval, ctxDone, chanCap, notices,
                   nPolls, messages, pollErr, consecFails, idx, acks, ackErr,
                   env, msg, sent, teardown, otherSent>>

\* variant: the select takes the default case whatever the state of ctx
SelectCaseIgnoresDone(done) == "default"

\* select { case <-ctx.Done(): ... default: ... }: the default case is taken
\* only when no other case is ready
SelectCase(done) == IF done THEN "Done" ELSE "default"

\* the head of the for loop: the select statement
Select ==
    /\ pc = "Select"
    /\ IF SelectCase(ctxDone) = "Done"
         THEN /\ startRet' = Nil
              /\ pc' = AfterReturn(defers)
         ELSE /\ startRet' = startRet
              /\ pc' = "GetMessages"
    /\ UNCHANGED <<hvars, instanceID, autoscaling, heartbeatInterval, ctxDone, chanCap, notices,
                   defers, nPolls, messages, pollErr, consecFails, idx, acks,
                   ackErr, env, msg, sent, setupErr, teardown, otherSent>>

\* variant: the range stops one item short
RangeNextSkipsLast(i, ms) == IF i + 1 < Len(ms) THEN "DeleteMessage" ELSE "Select"

\* for _, m := range messages: the statement after item i of ms has been dealt
\* with, or (i = 0) when the range statement is entered
RangeNext(i, ms) == IF i < Len(ms) THEN "DeleteMessage" ELSE "Select"

\* variant: a failed poll ends the loop
AfterGetMessagesBreaks(err, ms) == IF err # Nil THEN "Deferred" ELSE RangeNext(0, ms)

\* what Start does with the err of GetMessages: it logs it
AfterGetMessages(err, ms) == RangeNext(0, ms)

\* messages, err := l.queue.GetMessages(ctx); if err != nil { log }
Poll ==
    /\ pc = "GetMessages"
    /\ nPolls < MaxPolls
    /\ \E r \in GetMessages :
         /\ messages' = r.messages
         /\ pollErr' = r.err
         /\ consecFails' = IF r.err # Nil THEN consecFails + 1 ELSE 0
         /\ acks' = [i \in 1..Len(r.messages) |-> 0]
         /\ pc' = AfterGetMessages(r.err, r.messages)
         /\ idx' = IF AfterGetMessages(r.err, r.messages) = "DeleteMessage" THEN 1 ELSE 0
    /\ nPolls' = nPolls + 1
    /\ env' = ZeroEnvelope
    /\ msg' = ZeroMessage
    /\ ackErr' = Nil
    /\ UNCHANGED <<hvars, instanceID, autoscaling, heartbeatInterval, ctxDone, chanCap, notices,
                   startRet, defers, sent, setupErr, teardown, otherSent>>

\* continue, or the end of the loop body: on to the next item, or, after
\* the last one, out of the scope of messages to the next iteration of the
\* outer loop
Continue ==
    /\ pc' = RangeNext(idx, messages)
    /\ IF RangeNext(idx, messages) = "DeleteMessage"
         THEN idx' = idx + 1 /\ UNCHANGED <<messages, acks>>
         ELSE idx' = 0 /\ messages' = <<>> /\ acks' = <<>>
    /\ env' = ZeroEnvelope
    /\ msg' = ZeroMessage
    /\ ackErr' = Nil

\* variant: an item whose DeleteMessage failed is skipped
DeleteMessageSkipsOnErr ==
    /\ pc = "DeleteMessage"
    /\ acks' = [acks EXCEPT ![idx] = @ + 1]
    /\ \E err \in Logged :
         IF err # Nil
           THEN /\ pc' = RangeNext(idx, messages)
                /\ idx' = IF RangeNext(idx, messages) = "DeleteMessage"
                            THEN idx + 1 ELSE idx
                /\ ackErr' = Nil
           ELSE /\ ackErr' = err
                /\ pc' = "UnmarshalEnvelope"
                /\ idx' = idx
    /\ UNCHANGED <<hvars, instanceID, autoscaling, heartbeatInterval, ctxDone, chanCap, notices,
                   startRet, defers, nPolls, messages, pollErr, consecFails,
                   env, msg, sent, setupErr, teardown, otherSent>>

\* if err := l.queue.DeleteMessage(ctx, receipt); err != nil { log }
DeleteMessage ==
    /\ pc = "DeleteMessage"
    /\ \E err \in Logged : ackErr' = err
    /\ acks' = [acks EXCEPT ![idx] = @ + 1]
    /\ pc' = "UnmarshalEnvelope"
    /\ UNCHANGED <<hvars, instanceID, autoscaling, heartbeatInterval, ctxDone, chanCap, notices,
                   startRet, defers, nPolls, messages, pollErr, consecFails,
                   idx, env, msg, sent, setupErr, teardown, otherSent>>

\* unmarshal outer layer
DecodeEnvelope ==
    /\ pc = "UnmarshalEnvelope"
    /\ LET r == EnvelopeOf[messages[idx]]
       IN  IF r.err # Nil
             THEN Continue
             ELSE /\ env' = r.env
                  /\ pc' = "UnmarshalMessage"
                  /\ UNCHANGED <<messages, acks, idx, msg, ackErr>>
    /\ UNCHANGED <<hvars, instanceID, autoscaling, heartbeatInterval, ctxDone, chanCap, notices,
                   startRet, defers, nPolls, pollErr, consecFails,
                   sent, setupErr, teardown, otherSent>>

\* variant: a message that does not decode makes Start return the error
DecodeMessageReturnsErr ==
    /\ pc = "UnmarshalMessage"
    /\ LET r == MessageOf[env.Message]
       IN  IF r.err # Nil
             THEN /\ startRet' = r.err
                  /\ pc' = AfterReturn(defers)
                  /\ UNCHANGED <<messages, acks, idx, env, msg, ackErr>>
             ELSE /\ msg' = r.msg
                  /\ pc' = "CheckInstance"
                  /\ UNCHANGED <<messages, acks, idx, env, ackErr, startRet>>
    /\ UNCHANGED <<hvars, instanceID, autoscaling, heartbeatInterval, ctxDone, chanCap, notices,
                   defers, nPolls, pollErr, consecFails,
                   sent, setupErr, teardown, otherSent>>

\* unmarshal inner layer
DecodeMessage ==
    /\ pc = "UnmarshalMessage"
    /\ LET r == MessageOf[env.Message]
       IN  IF r.err # Nil
             THEN Continue
             ELSE /\ msg' = r.msg
                  /\ pc' = "CheckInstance"
                  /\ UNCHANGED <<messages, acks, idx, env, ackErr>>
    /\ UNCHANGED <<hvars, instanceID, autoscaling, heartbeatInterval, ctxDone, chanCap, notices,
                   startRet, defers, nPolls, pollErr, consecFails,
                   sent, setupErr, teardown, otherSent>>

\* variant: the comparison of the instance IDs is inverted
WrongInstanceInverted(m, id) == m.InstanceID = id

\* msg.InstanceID != l.instanceID
WrongInstance(m, id) == m.InstanceID # id

\* if msg.InstanceID != l.instanceID { continue }
CheckInstance ==
    /\ pc = "CheckInstance"
    /\ IF WrongInstance(msg, instanceID)
         THEN Continue
         ELSE /\ pc' = "CheckTransition"
              /\ UNCHANGED <<messages, acks, idx, env, msg, ackErr>>
    /\ UNCHANGED <<hvars, instanceID, autoscaling, heartbeatInterval, ctxDone, chanCap, notices,
                   startRet, defers, nPolls, pollErr, consecFails,
                   sent, setupErr, teardown, otherSent>>

\* variant: the transition of the message is not looked at
WrongTransitionDropped(m) == FALSE

\* msg.Transition != "autoscaling:EC2_INSTANCE_TERMINATING"
WrongTransition(m) == m.Transition # Terminating

\* if msg.Transition != ... { continue }
CheckTransition ==
    /\ pc = "CheckTransition"
    /\ IF WrongTransition(msg)
         THEN Continue
         ELSE /\ pc' = "Send"
              /\ UNCHANGED <<messages, acks, idx, env, msg, ackErr>>
    /\ UNCHANGED <<hvars, instanceID, autoscaling, heartbeatInterval, ctxDone, chanCap, notices,
                   startRet, defers, nPolls, pollErr, consecFails,
                   sent, setupErr, teardown, otherSent>>

\* a send on the channel can proceed: there is room in the buffer, or the
\* channel is unbuffered and the value is handed to the receiver
CanSend == chanCap = 0 \/ Len(notices) < chanCap

\* the channel after a send of n
AfterSend(n) == IF chanCap = 0 THEN notices ELSE Append(notices, n)

\* variant: the heartbeat interval of the listener is not copied
NewNoticeNoInterval ==
    [noticeType |-> "autoscaling", message |-> msg, autoscaling |-> autoscaling,
     heartbeatInterval |-> 0]

\* variant: the client of the listener is not copied
NewNoticeNoClient ==
    [noticeType |-> "autoscaling", message |-> msg, autoscaling |-> Nil,
     heartbeatInterval |-> heartbeatInterval]

\* &autoscalingTerminationNotice{...}
NewNotice ==
    [noticeType |-> "autoscaling", message |-> msg, autoscaling |-> autoscaling,
     heartbeatInterval |-> heartbeatInterval]

\* variant: the return after the send is missing
AfterNoticeContinue == "continue"

\* the statement after the send: return nil
AfterNotice == "return"

\* notices <- &autoscalingTerminationNotice{...}; return nil
Send ==
    /\ pc = "Send"
    /\ CanSend
    /\ notices' = AfterSend(NewNotice)
    /\ sent' = Append(sent, NewNotice)
    /\ IF AfterNotice = "return"
         THEN /\ startRet' = Nil
              /\ pc' = AfterReturn(defers)
              /\ UNCHANGED <<messages, acks, idx, env, msg, ackErr>>
         ELSE /\ startRet' = startRet
              /\ Continue
    /\ UNCHANGED <<hvars, instanceID, autoscaling, heartbeatInterval, ctxDone, chanCap, defers,
                   nPolls, pollErr, consecFails, setupErr,
                   teardown, otherSent>>

\* variant: the deferred calls run in the order they were deferred in
NextDeferredFIFO(ds) == 1

\* deferred calls run in the reverse of the order they were deferred in
NextDeferred(ds) == Len(ds)

\* variant: a failed teardown call becomes the result of Start
AfterTeardownEscalates(ret, err) == IF err # Nil THEN err ELSE ret

\* the result of Start after a deferred closure got err from Unsubscribe or
\* Delete: the closure logs err and assigns nothing
AfterTeardown(ret, err) == ret

\* the deferred closures: l.queue.Unsubscribe() and l.queue.Delete(), each
\* logging its error
RunDeferred ==
    /\ pc = "Deferred"
    /\ LET k == NextDeferred(defers)
           rest == [i \in 1..(Len(defers) - 1) |->
                       IF i < k THEN defers[i] ELSE defers[i + 1]]
       IN  /\ \E err \in Logged :
                /\ teardown' = Append(teardown, [call |-> defers[k], err |-> err])
                /\ startRet' = AfterTeardown(startRet, err)
           /\ defers' = rest
           /\ pc' = IF rest = <<>> THEN "Done" ELSE "Deferred"
    /\ UNCHANGED <<hvars, instanceID, autoscaling, heartbeatInterval, ctxDone, chanCap, notices,
                   nPolls, messages, pollErr, consecFails, idx,
                   acks, ackErr, env, msg, sent, setupErr, otherSent>>

(***************************************************************************)
(* The environment of Start.                                               *)
(***************************************************************************)
\* the caller cancels ctx
Cancel ==
    /\ ~ctxDone
    /\ ctxDone' = TRUE
    /\ UNCHANGED <<hvars, instanceID, autoscaling, heartbeatInterval, chanCap, notices, pc,
                   startRet, defers, nPolls, messages, pollErr, consecFails,
                   idx, acks, ackErr, env, msg, sent, setupErr, teardown,
                   otherSent>>

\* the consumer of the channel takes a buffered notice
Receive ==
    /\ notices # <<>>
    /\ notices' = Tail(notices)
    /\ UNCHANGED <<hvars, instanceID, autoscaling, heartbeatInterval, ctxDone, chanCap, pc,
                   startRet, defers, nPolls, messages, pollErr, consecFails,
                   idx, acks, ackErr, env, msg, sent, setupErr, teardown,
                   otherSent>>

\* a listener of another kind, sharing the channel, sends its notice
OtherSend ==
    /\ ~otherSent
    /\ CanSend
    /\ otherSent' = TRUE
    /\ notices' = AfterSend([noticeType |-> "spot"])
    /\ UNCHANGED <<hvars, instanceID, autoscaling, heartbeatInterval, ctxDone, chanCap, pc,
                   startRet, defers, nPolls, messages, pollErr, consecFails,
                   idx, acks, ackErr, env, msg, sent, setupErr, teardown>>

(***************************************************************************)
(* autoscalingTerminationNotice.Handle                                     *)
(***************************************************************************)
\* the notices Handle may be called on
Notices ==
    { [noticeType |-> "autoscaling", message |-> MessageOf[t].msg,
       autoscaling |-> c, heartbeatInterval |-> h] :
        t \in { x \in InnerTexts : MessageOf[x].err = Nil },
        c \in Clients, h \in Intervals }

\* Handle is called on a notice
HandleInit ==
    /\ notice \in Notices
    /\ hpc = "DeferComplete"
    /\ hdefers = <<>>
    /\ handlerArgs = <<>>
    /\ handleRet = "none"
    /\ execRet = "none"
    /\ ticker = "none"
    /\ tickerC = 0
    /\ nTicks = 0
    /\ wpc = "NotStarted"
    /\ calls = <<>>
    /\ callErrs = [heartbeat |-> 0, complete |-> "none"]
    /\ overlap = FALSE

\* the listener of a state in which only Handle runs
StartIdle ==
    /\ instanceID = "i-1"
    /\ autoscaling = "c1"
    /\ heartbeatInterval = 0
    /\ chanCap = 0
    /\ StartEntry

\* defer func() { n.autoscaling.CompleteLifecycleAction(...) ... }()
DeferComplete ==
    /\ hpc = "DeferComplete"
    /\ hdefers' = Append(hdefers, "Complete")
    /\ hpc' = "NewTicker"
    /\ UNCHANGED <<ctxDone, svars, notice, handlerArgs, handleRet, execRet,
                   ticker, tickerC, nTicks, wpc, calls, callErrs, overlap>>

\* time.NewTicker panics unless its argument is positive
TickerPanics(d) == d <= 0

\* ticker := time.NewTicker(n.heartbeatInterval); defer ticker.Stop()
NewTicker ==
    /\ hpc = "NewTicker"
    /\ IF TickerPanics(notice.heartbeatInterval)
         THEN /\ hpc' = "Panicking"
              /\ UNCHANGED <<ticker, hdefers>>
         ELSE /\ ticker' = "running"
              /\ hdefers' = Append(hdefers, "Stop")
              /\ hpc' = "Go"
    /\ UNCHANGED <<ctxDone, svars, notice, handlerArgs, handleRet, execRet,
                   tickerC, nTicks, wpc, calls, callErrs, overlap>>

\* go func() { for range ticker.C { ... } }()
Go ==
    /\ hpc = "Go"
    /\ wpc' = "Range"
    /\ hpc' = "Execute"
    /\ UNCHANGED <<ctxDone, svars, notice, hdefers, handlerArgs, handleRet,
                   execRet, ticker, tickerC, nTicks, calls, callErrs, overlap>>

\* handler.Execute(ctx, n.message.Transition, n.message.InstanceID) is called
ExecuteCall ==
    /\ hpc = "Execute"
    /\ handlerArgs' = Append(handlerArgs,
                              [transition |-> notice.message.Transition,
                               instanceID |-> notice.message.InstanceID])
    /\ hpc' = "Executing"
    /\ UNCHANGED <<ctxDone, svars, notice, hdefers, handleRet, execRet,
                   ticker, tickerC, nTicks, wpc, calls, callErrs, overlap>>

\* the values the user handler may return
HandlerResults == Results \cup (IF ctxDone THEN {Canceled} ELSE {})

\* the value Handle returns when the handler returned r
ReturnValue(r) == r

\* return handler.Execute(...): the handler returns
ExecuteReturn ==
    /\ hpc = "Executing"
    /\ \E r \in HandlerResults :
         /\ execRet' = r
         /\ handleRet' = ReturnValue(r)
    /\ hpc' = "Deferred"
    /\ UNCHANGED <<ctxDone, svars, notice, hdefers, handlerArgs, ticker,
                   tickerC, nTicks, wpc, calls, callErrs, overlap>>

\* variant: the result reported depends on the outcome of the handler
CompleteInputByOutcome(n) ==
    [call |-> "CompleteLifecycleAction", client |-> n.autoscaling,
     AutoScalingGroupName |-> n.message.GroupName,
     LifecycleHookName |-> n.message.HookName,
     InstanceId |-> n.message.InstanceID,
     LifecycleActionToken |-> n.message.ActionToken,
     LifecycleActionResult |-> IF execRet = Nil THEN "CONTINUE" ELSE "ABANDON"]

\* n.autoscaling.CompleteLifecycleAction(&...Input{...}): the client called
\* and the input
CompleteInput(n) ==
    [call |-> "CompleteLifecycleAction", client |-> n.autoscaling,
     AutoScalingGroupName |-> n.message.GroupName,
     LifecycleHookName |-> n.message.HookName,
     InstanceId |-> n.message.InstanceID,
     LifecycleActionToken |-> n.message.ActionToken,
     LifecycleActionResult |-> "CONTINUE"]

\* n.autoscaling.RecordLifecycleActionHeartbeat(&...Input{...}): the client
\* called and the input
HeartbeatInput(n) ==
    [call |-> "RecordLifecycleActionHeartbeat", client |-> n.autoscaling,
     AutoScalingGroupName |-> n.message.GroupName,
     LifecycleHookName |-> n.message.HookName,
     InstanceId |-> n.message.InstanceID,
     LifecycleActionToken |-> n.message.ActionToken]

\* the deferred calls of Handle run last in, first out
NextHandleDeferred(ds) == Len(ds)

\* variant: a failed completion call becomes the result of Handle
AfterCompleteOverrides(ret, err) == IF err # Nil THEN err ELSE ret

\* the result of Handle after the deferred closure got err from
\* CompleteLifecycleAction: the closure logs err and assigns nothing
AfterComplete(ret, err) == ret

\* the state Handle ends in once its deferred calls have run
HandleEnd == IF hpc = "Panicking" THEN "Panicked" ELSE "Done"

\* Handle is inside its deferred closure, waiting for the answer to
\* CompleteLifecycleAction
Completing == hpc \in {"Completing", "CompletingPanic"}

\* the deferred calls of Handle, on return and on panic: ticker.Stop(), and
\* the closure, which begins with the call of CompleteLifecycleAction
RunHandleDeferred ==
    /\ hpc \in {"Deferred", "Panicking"}
    /\ LET k == NextHandleDeferred(hdefers)
           rest == [i \in 1..(Len(hdefers) - 1) |->
                       IF i < k THEN hdefers[i] ELSE hdefers[i + 1]]
       IN  IF hdefers[k] = "Stop"
             THEN \* Stop sends no more ticks; whether a tick already
                  \* buffered in ticker.C can still be received depends on
                  \* the Go release the program is built with
                  /\ ticker' = "stopped"
                  /\ tickerC' \in {tickerC, 0}
                  /\ hdefers' = rest
                  /\ hpc' = IF rest = <<>> THEN HandleEnd ELSE hpc
                  /\ UNCHANGED <<calls, overlap>>
             ELSE /\ calls' = Append(calls, CompleteInput(notice))
                  /\ hpc' = IF hpc = "Panicking" THEN "CompletingPanic" ELSE "Completing"
                  /\ overlap' = (overlap \/ wpc = "InFlight")
                  /\ UNCHANGED <<ticker, tickerC, hdefers>>
    /\ UNCHANGED <<ctxDone, svars, notice, handlerArgs, handleRet, execRet,
                   nTicks, wpc, callErrs>>

\* CompleteLifecycleAction returns; the closure logs the outcome and ends
CompleteReturn ==
    /\ Completing
    /\ LET k == NextHandleDeferred(hdefers)
           rest == [i \in 1..(Len(hdefers) - 1) |->
                       IF i < k THEN hdefers[i] ELSE hdefers[i + 1]]
           back == IF hpc = "CompletingPanic" THEN "Panicking" ELSE "Deferred"
           end == IF hpc = "CompletingPanic" THEN "Panicked" ELSE "Done"
       IN  /\ \E err \in Results :
                /\ callErrs' = [callErrs EXCEPT !.complete = err]
                /\ handleRet' = AfterComplete(handleRet, err)
           /\ hdefers' = rest
           /\ hpc' = IF rest = <<>> THEN end ELSE back
    /\ UNCHANGED <<ctxDone, svars, notice, handlerArgs, execRet, ticker,
                   tickerC, nTicks, wpc, calls, overlap>>

\* the runtime timer of the ticker fires: a tick is put in ticker.C, or
\* dropped when the channel is full
Tick ==
    /\ ticker = "running"
    /\ nTicks < MaxTicks
    /\ nTicks' = nTicks + 1
    /\ tickerC' = 1
    /\ UNCHANGED <<ctxDone, svars, notice, hpc, hdefers, handlerArgs,
                   handleRet, execRet, ticker, wpc, calls, callErrs, overlap>>

\* for range ticker.C: the heartbeat goroutine receives a tick
WorkerReceive ==
    /\ wpc = "Range"
    /\ tickerC > 0
    /\ tickerC' = tickerC - 1
    /\ wpc' = "Heartbeat"
    /\ UNCHANGED <<ctxDone, svars, notice, hpc, hdefers, handlerArgs,
                   handleRet, execRet, ticker, nTicks, calls, callErrs,
                   overlap>>

\* log.Debug("Sending heartbeat"); RecordLifecycleActionHeartbeat is called
HeartbeatCall ==
    /\ wpc = "Heartbeat"
    /\ calls' = Append(calls, HeartbeatInput(notice))
    /\ wpc' = "InFlight"
    /\ overlap' = (overlap \/ Completing)
    /\ UNCHANGED <<ctxDone, svars, notice, hpc, hdefers, handlerArgs,
                   handleRet, execRet, ticker, tickerC, nTicks, callErrs>>

\* variant: the heartbeat goroutine gives up after a failed heartbeat
AfterHeartbeatStops(err) == IF err # Nil THEN "Exited" ELSE "Range"

\* the statement of the heartbeat goroutine after a heartbeat call returned
\* err: the error is logged and the loop goes on
AfterHeartbeat(err) == "Range"

\* RecordLifecycleActionHeartbeat returns; if err != nil { log }
HeartbeatReturn ==
    /\ wpc = "InFlight"
    /\ \E err \in Results :
         /\ callErrs' = [callErrs EXCEPT
                           !.heartbeat = IF err # Nil THEN @ + 1 ELSE @]
         /\ wpc' = AfterHeartbeat(err)
    /\ UNCHANGED <<ctxDone, svars, notice, hpc, hdefers, handlerArgs,
                   handleRet, execRet, ticker, tickerC, nTicks, calls,
                   overlap>>

\* the caller of Handle cancels ctx
HandleCancel ==
    /\ ~ctxDone
    /\ ctxDone' = TRUE
    /\ UNCHANGED <<svars, hvars>>

HandleNext ==
    \/ DeferComplete
    \/ NewTicker
    \/ Go
    \/ ExecuteCall
    \/ ExecuteReturn
    \/ RunHandleDeferred
    \/ CompleteReturn
    \/ Tick
    \/ WorkerReceive
    \/ HeartbeatCall
    \/ HeartbeatReturn
    \/ HandleCancel

HandleSpecInit ==
    /\ ctxDone = FALSE
    /\ StartIdle
    /\ HandleInit

HandleSpec == HandleSpecInit /\ [][HandleNext]_vars

Next ==
    \/ Create
    \/ Subscribe
    \/ Select
    \/ Poll
    \/ DeleteMessage
    \/ DecodeEnvelope
    \/ DecodeMessage
    \/ CheckInstance
    \/ CheckTransition
    \/ Send
    \/ RunDeferred
    \/ Cancel
    \/ Receive
    \/ OtherSend

Spec == Init /\ [][Next]_vars

(***************************************************************************)
(* Scheduling.  The goroutine running Start is scheduled and every call it *)
(* makes returns, so Start takes its next step whenever that step needs no *)
(* other party.  A send on an unbuffered channel needs a receiver, and a   *)
(* receiver is not guaranteed.                                             *)
(***************************************************************************)
\* a step of Start
StartStep ==
    \/ Create
    \/ Subscribe
    \/ Select
    \/ Poll
    \/ DeleteMessage
    \/ DecodeEnvelope
    \/ DecodeMessage
    \/ CheckInstance
    \/ CheckTransition
    \/ Send
    \/ RunDeferred

\* the steps of Start that go ahead on their own
StartProgress == StartStep /\ (pc = "Send" => chanCap > 0)

\* a run of Start under this scheduling
FairSpec == Init /\ [][Next]_vars /\ WF_vars(StartProgress)

\* a run of Start on an empty channel of capacity 1 that no other listener
\* sends on; the consumer may or may not receive
AloneInit == Init /\ chanCap = 1

AloneNext ==
    \/ StartStep
    \/ Cancel
    \/ Receive

AloneSpec == AloneInit /\ [][AloneNext]_vars /\ WF_vars(StartProgress)

\* the goroutine that called Handle: it is scheduled, and the calls it
\* makes, the user handler included, return
HandleMain ==
    \/ DeferComplete
    \/ NewTicker
    \/ Go
    \/ ExecuteCall
    \/ ExecuteReturn
    \/ RunHandleDeferred
    \/ CompleteReturn

\* the heartbeat goroutine: it is scheduled and its calls return
HeartbeatWorker ==
    \/ WorkerReceive
    \/ HeartbeatCall
    \/ HeartbeatReturn

\* a call of Handle under this scheduling
FairHandleSpec ==
    HandleSpecInit /\ [][HandleNext]_vars
      /\ WF_vars(HandleMain) /\ WF_vars(HeartbeatWorker)

TypeOK ==
    /\ pc \in {"Create", "Subscribe", "Select", "GetMessages", "DeleteMessage",
               "UnmarshalEnvelope", "UnmarshalMessage", "CheckInstance",
               "CheckTransition", "Send", "Deferred", "Done"}
    /\ startRet \in {"none"} \cup Results
    /\ autoscaling \in Clients
    /\ \A i \in 1..Len(sent) : sent[i].autoscaling \in Clients
    /\ nPolls \in 0..MaxPolls
    /\ Len(notices) <= chanCap

HandleTypeOK ==
    /\ hpc \in {"DeferComplete", "NewTicker", "Go", "Execute", "Executing",
                "Deferred", "Panicking", "Completing", "CompletingPanic",
                "Panicked", "Done"}
    /\ wpc \in {"NotStarted", "Range", "Heartbeat", "InFlight"}
    /\ tickerC \in 0..1
    /\ handleRet \in {"none", Canceled} \cup Results
(***************************************************************************)
(* Properties of AutoscalingListener.Start (checked under Spec).           *)
(***************************************************************************)
\* the item Start is dealing with
CurrentItem == messages[idx]

\* the key of a member names the field with this tag
SameKey(k, tag) == EqualFold(k, Runes(tag))

\* the text is a JSON object (or null) that the decoder accepts for a struct
\* with a Time field and the given string fields: each member that names
\* the Time field holds an RFC 3339 string or null, and each member that
\* names a string field holds a string or null
Fits(text, stringTags) ==
    /\ text.valid
    /\ text.doc.kind \in {"null", "object"}
    /\ (text.doc.kind = "object" =>
         \A i \in 1..Len(text.doc.members) :
            LET m == text.doc.members[i]
            IN  \/ m.val.kind = "null"
                \/ /\ (SameKey(m.key, "Time") =>
                          (m.val.kind = "string" /\ ParseRFC3339(m.val.s).ok))
                    /\ ((\E t \in stringTags : SameKey(m.key, t)) =>
                          m.val.kind = "string"))

EnvelopeStrings == {"Type", "Subject", "Message"}

MessageStrings ==
    {"AutoScalingGroupName", "EC2InstanceId", "LifecycleActionToken",
     "LifecycleTransition", "LifecycleHookName"}

\* the positions of the members of a text that give field tag a value
Giving(text, tag) ==
    IF text.valid /\ text.doc.kind = "object"
      THEN { i \in 1..Len(text.doc.members) :
               /\ SameKey(text.doc.members[i].key, tag)
               /\ text.doc.members[i].val.kind = "string" }
      ELSE {}

\* the string the last such member holds, none if there is no such member
FieldOf(text, tag, none) ==
    IF Giving(text, tag) = {}
      THEN none
      ELSE LET last == CHOOSE i \in Giving(text, tag) :
                          \A j \in Giving(text, tag) : j <= i
           IN  text.doc.members[last].val.s

\* the inner text an item carries
ItemText(body) == FieldOf(body, "Message", BadJSON)

\* the instant a text is stamped with: what its last Time holds
TimeOf(text) ==
    LET s == FieldOf(text, "Time", "")
    IN  IF s = "" THEN ZeroTime ELSE ParseRFC3339(s).t

\* the above for the documents of the model: the bodies that decode as
\* envelopes, the text each body carries, the texts that decode as
\* messages, and the fields of each text
FitEnvelopes == { b \in Bodies : Fits(b, EnvelopeStrings) }

Carried == [b \in Bodies |-> ItemText(b)]

FitMessages == { t \in { ItemText(b) : b \in Bodies } : Fits(t, MessageStrings) }

Fields ==
    [b \in Bodies |-> [k \in MessageStrings |-> FieldOf(ItemText(b), k, "")]]

Times == [b \in Bodies |-> TimeOf(ItemText(b))]

\* the item is an envelope that decodes, around a message that decodes
DecodesFully(body) ==
    /\ body \in FitEnvelopes
    /\ Carried[body] \in FitMessages

\* the message a fully decoding item holds, field by field ("" if absent)
ItemField(body, key) == Fields[body][key]

\* the instance and the transition a fully decoding item names
ItemInstance(body) == ItemField(body, "EC2InstanceId")

ItemTransition(body) == ItemField(body, "LifecycleTransition")

\* the item decodes and is a termination of the configured instance
PassesFilter(body) ==
    /\ DecodesFully(body)
    /\ ItemInstance(body) = instanceID
    /\ ItemTransition(body) = Terminating

\* both setup steps succeeded
SetupDone == setupErr.Create = Nil /\ setupErr.Subscribe = Nil

\* the teardown calls made so far
TeardownCalls == [i \in 1..Len(teardown) |-> teardown[i].call]

\* Start is dealing with an item of the batch
InItem ==
    pc \in {"DeleteMessage", "UnmarshalEnvelope", "UnmarshalMessage",
            "CheckInstance", "CheckTransition", "Send"}

\* C1: every notice sent was built from a decoded message of the configured
\* instance whose transition is autoscaling:EC2_INSTANCE_TERMINATING, and
\* Start reaches the send only for an item that decodes and passes both tests.
C1_FilterInvariant ==
    /\ \A i \in 1..Len(sent) :
         /\ sent[i].message.InstanceID = instanceID
         /\ sent[i].message.Transition = Terminating
         /\ PassesFilter(CurrentItem)
         /\ sent[i].message.ActionToken = ItemField(CurrentItem, "LifecycleActionToken")
    /\ pc = "Send" => PassesFilter(CurrentItem) /\ msg.InstanceID = instanceID
                                                /\ msg.Transition = Terminating

\* C1 witness: a notice was sent for the second item of a batch whose first
\* item was for the right instance with another transition.
C1_Witness ==
    /\ Len(sent) = 1
    /\ idx = 2
    /\ DecodesFully(messages[1])
    /\ ItemInstance(messages[1]) = instanceID
    /\ ItemTransition(messages[1]) = Launching

\* C2: a run sends at most one notice, and once it is sent no poll and no
\* acknowledge call is made: only the deferred teardown and the return follow.
C2_AtMostOneNotice ==
    [][ /\ Len(sent') <= 1
        /\ sent # <<>> =>
             /\ pc \in {"Deferred", "Done"}
             /\ pc' \in {"Deferred", "Done"}
             /\ nPolls' = nPolls
             /\ acks' = acks
             /\ sent' = sent ]_vars

\* C2 witness: Start returned after a send although polls and an item of
\* the batch were left and ctx was not cancelled.
C2_Witness ==
    /\ pc = "Done"
    /\ Len(sent) = 1
    /\ nPolls < MaxPolls
    /\ idx < Len(messages)
    /\ ~ctxDone

\* C5: once Create and Subscribe succeeded, teardown is Unsubscribe then
\* Delete, each once, begun only after the loop ended and complete when
\* Start has returned.
C5_TeardownOnce ==
    /\ teardown # <<>> => pc \in {"Deferred", "Done"}
    /\ SetupDone =>
         /\ TeardownCalls \in {<<>>, <<"Unsubscribe">>, <<"Unsubscribe", "Delete">>}
         /\ pc = "Done" => TeardownCalls = <<"Unsubscribe", "Delete">>

\* C5 witness: Start returned on cancellation after a failed poll, with
\* both teardown calls made.
C5_Witness ==
    /\ pc = "Done"
    /\ SetupDone
    /\ consecFails >= 1
    /\ ctxDone
    /\ sent = <<>>
    /\ Len(teardown) = 2

\* the step Start takes is the decoding of an item that does not decode
DecodeFails ==
    \/ pc = "UnmarshalEnvelope" /\ CurrentItem \notin FitEnvelopes
    \/ pc = "UnmarshalMessage" /\ env.Message \notin FitMessages

\* C7: an item whose envelope or inner message does not decode has been
\* acknowledged, sends no notice and does not end Start: the loop goes on
\* to the next item of the batch, or to the next iteration after the last.
C7_DecodeFailureSkips ==
    [][ (DecodeFails /\ pc' # pc) =>
          /\ acks[idx] = 1
          /\ sent' = sent
          /\ startRet' = "none"
          /\ IF idx < Len(messages)
               THEN pc' = "DeleteMessage" /\ idx' = idx + 1
               ELSE pc' = "Select" ]_vars

\* C7 witness: the first item of a batch of two had an inner message that
\* is well-formed JSON and does not decode, and Start is at the second item.
C7_Witness ==
    /\ pc = "DeleteMessage"
    /\ idx = 2
    /\ messages[1] \in FitEnvelopes
    /\ Carried[messages[1]].valid
    /\ Carried[messages[1]] \notin FitMessages
    /\ acks[1] = 1
    /\ startRet = "none"

\* C8: Start returns an error exactly when Create or Subscribe failed; it
\* is then that step's error, and nothing was polled, acknowledged or sent.
C8_OnlySetupErrors ==
    /\ startRet \in Errors =>
         /\ nPolls = 0 /\ acks = <<>> /\ sent = <<>>
         /\ \/ setupErr.Create = startRet /\ setupErr.Subscribe = "none"
            \/ setupErr.Create = Nil /\ setupErr.Subscribe = startRet
    /\ pc = "Done" =>
         /\ startRet \in Results
         /\ startRet = Nil <=> SetupDone

\* C8 witness: Subscribe failed with e2 and Start returned e2.
C8_Witness ==
    /\ pc = "Done"
    /\ setupErr.Subscribe = "e2"
    /\ startRet = "e2"

\* C9: once ctx is cancelled the select never takes the default case again,
\* so no new iteration (and poll) begins; the run then returns nil, and a
\* run that returned without a match returned nil after both teardown calls.
C9_CancelStopsLoop ==
    [][ /\ (ctxDone /\ pc = "Select" /\ pc' # pc) =>
              pc' = "Deferred" /\ startRet' = Nil /\ nPolls' = nPolls
        /\ (pc' = "Done" /\ SetupDone /\ sent' = <<>>) =>
              ctxDone /\ startRet' = Nil /\ Len(teardown') = 2 ]_vars

\* C9 witness: ctx was cancelled during the first iteration, while polls
\* were left, and Start returned nil without a match.
C9_Witness ==
    /\ pc = "Done"
    /\ ctxDone
    /\ nPolls = 1
    /\ nPolls < MaxPolls
    /\ sent = <<>>
    /\ startRet = Nil

\* C10: a poll that returns an error yields no items: nothing is
\* acknowledged, decoded or sent in that iteration, Start does not return,
\* and the loop goes on to its next iteration.
C10_PollErrorIsEmpty ==
    [][ /\ (pc = "GetMessages" /\ pc' # pc /\ pollErr' # Nil) =>
              /\ pc' = "Select"
              /\ messages' = <<>>
              /\ acks' = <<>>
              /\ sent' = sent
              /\ startRet' = "none"
        /\ pollErr' # Nil => ~InItem' ]_vars

\* C10 witness: two polls in a row failed and Start is at the head of the
\* loop again, not having returned.
C10_Witness ==
    /\ consecFails >= 2
    /\ pc = "Select"
    /\ startRet = "none"

\* the instant a fully decoding item is stamped with
ItemTime(body) == Times[body]

\* the notice the listener is to build from an item
NoticeFor(body) ==
    [noticeType |-> "autoscaling",
     message |-> [Time |-> ItemTime(body),
                  GroupName |-> ItemField(body, "AutoScalingGroupName"),
                  InstanceID |-> ItemField(body, "EC2InstanceId"),
                  ActionToken |-> ItemField(body, "LifecycleActionToken"),
                  Transition |-> ItemField(body, "LifecycleTransition"),
                  HookName |-> ItemField(body, "LifecycleHookName")],
     autoscaling |-> autoscaling,
     heartbeatInterval |-> heartbeatInterval]

\* C11: the notice is built from the first item, in delivery order over
\* all polls, that decodes and passes the filter: Start never moves past an
\* item that passes, and the notice it sends carries that item's instance,
\* token, group, hook and transition and the listener's control-plane
\* client and heartbeat interval.
C11_FirstPassingItem ==
    [][ /\ (InItem /\ idx' # idx) => ~PassesFilter(CurrentItem)
        /\ sent' # sent =>
             /\ PassesFilter(CurrentItem)
             /\ sent' = <<NoticeFor(CurrentItem)>>
             /\ \A j \in 1..(idx - 1) : ~PassesFilter(messages[j]) ]_vars

\* C11 witness: the notice was sent in the second poll for the first item
\* (token u) of a batch whose second item (token t) passes as well, by a
\* listener with client c1 and a heartbeat interval of 10.
C11_Witness ==
    /\ Len(sent) = 1
    /\ nPolls = 2
    /\ idx = 1
    /\ Len(messages) = 2
    /\ PassesFilter(messages[2])
    /\ sent[1].message.ActionToken = "u"
    /\ ItemField(messages[2], "LifecycleActionToken") = "t"
    /\ sent[1].autoscaling = "c1"
    /\ sent[1].heartbeatInterval = 10

\* C12: a failed Unsubscribe does not keep Delete from being called, and no
\* teardown call, failed or not, changes the result of Start, the notice
\* sent or the contents of the channel.
C12_TeardownBestEffort ==
    [][ /\ teardown' # teardown =>
             /\ startRet' = startRet
             /\ sent' = sent
             /\ notices' = notices
        /\ (pc' = "Done" /\ Len(teardown') >= 1 /\ teardown'[1].call = "Unsubscribe") =>
             /\ Len(teardown') = 2
             /\ teardown'[2].call = "Delete"
             /\ startRet' = Nil ]_vars

\* C12 witness: a notice was sent, Unsubscribe and Delete both failed, and
\* Start returned nil with the notice still as sent.
C12_Witness ==
    /\ pc = "Done"
    /\ Len(sent) = 1
    /\ Len(teardown) = 2
    /\ teardown[1].err # Nil
    /\ teardown[2].err # Nil
    /\ startRet = Nil

\* C14 (as claimed): when Start has returned, every item of the batch it
\* held has been acknowledged.
C14_EveryItemAcked ==
    pc = "Done" => \A i \in 1..Len(messages) : acks[i] = 1

\* C14 (amended): the items Start has dealt with, up to and including the
\* one it is at, have each been acknowledged once, in delivery order, and
\* the items behind it not yet; a batch is left for the next iteration only
\* when all its items are acknowledged.  After a match the items behind
\* the matching one stay unacknowledged.
C14_ProcessedItemsAcked ==
    [][ /\ \A i \in 1..Len(messages) :
             acks[i] = IF i < idx \/ (i = idx /\ pc # "DeleteMessage") THEN 1 ELSE 0
        /\ (InItem /\ pc' = "Select") => \A i \in 1..Len(messages) : acks[i] = 1
        /\ (sent # <<>> /\ pc = "Done") =>
             \A i \in (idx + 1)..Len(messages) : acks[i] = 0 ]_vars

\* C14 witness: Start returned after a match on the first item of a batch
\* of two; the second item was not acknowledged.
C14_Witness ==
    /\ pc = "Done"
    /\ Len(sent) = 1
    /\ idx = 1
    /\ Len(messages) = 2
    /\ acks = <<1, 0>>

\* the statement that follows pc for an item that passes the filter
NextStage ==
    [UnmarshalEnvelope |-> "UnmarshalMessage", UnmarshalMessage |-> "CheckInstance",
     CheckInstance |-> "CheckTransition", CheckTransition |-> "Send"]

\* C15: an item is acknowledged once, before it is decoded or filtered, and
\* the result of the acknowledge call changes nothing: decoding follows it
\* in any case, and an item that passes whose acknowledge failed goes
\* through every stage and is sent.
C15_AckOnceBeforeDecode ==
    [][ /\ pc = "DeleteMessage" =>
             /\ acks[idx] = 0
             /\ env = ZeroEnvelope /\ msg = ZeroMessage
             /\ pc' # pc => pc' = "UnmarshalEnvelope" /\ idx' = idx /\ acks'[idx] = 1
        /\ (InItem /\ pc # "DeleteMessage") => acks[idx] = 1 /\ (idx' = idx => acks' = acks)
        /\ (ackErr # Nil /\ pc \in DOMAIN NextStage /\ PassesFilter(CurrentItem) /\ pc' # pc) =>
             pc' = NextStage[pc]
        /\ (ackErr # Nil /\ pc = "Send" /\ pc' # pc) => sent' = <<NoticeFor(CurrentItem)>> ]_vars

\* C15 witness: a notice was sent for an item whose acknowledge call failed.
C15_Witness ==
    /\ Len(sent) = 1
    /\ ackErr = "e1"
    /\ acks[idx] = 1

\* C19: if Create fails no teardown call is made; if Create succeeds and
\* Subscribe fails, Delete is called once and Unsubscribe never; either
\* way Start returns the error of the step that failed.
C19_SetupFailureReleases ==
    /\ setupErr.Create \in Errors =>
         /\ teardown = <<>>
         /\ startRet = setupErr.Create
         /\ setupErr.Subscribe = "none"
    /\ (setupErr.Create = Nil /\ setupErr.Subscribe \in Errors) =>
         /\ TeardownCalls \in {<<>>, <<"Delete">>}
         /\ startRet = setupErr.Subscribe
         /\ pc = "Done" => TeardownCalls = <<"Delete">>

\* C19 witness: Create succeeded, Subscribe failed with e1, Delete was
\* called (and failed), and Start returned e1.
C19_Witness ==
    /\ pc = "Done"
    /\ setupErr = [Create |-> Nil, Subscribe |-> "e1"]
    /\ TeardownCalls = <<"Delete">>
    /\ teardown[1].err # Nil
    /\ startRet = "e1"

\* an item that passes the filter is the current one or still ahead
PassingItemAhead ==
    /\ InItem
    /\ \E j \in idx..Len(messages) : PassesFilter(messages[j])

\* C13: on an empty channel of capacity 1 that this listener alone sends
\* on, the send never has to wait, and once a poll has delivered an item
\* that passes the filter Start sends the notice, runs teardown and returns
\* nil, whether or not anybody receives.  (Checked under AloneSpec.)
C13_SendsWithoutBlocking ==
    /\ [](pc = "Send" => CanSend /\ notices = <<>>)
    /\ PassingItemAhead ~>
         (pc = "Done" /\ startRet = Nil /\ Len(sent) = 1 /\ Len(teardown) = 2)

\* C13 witness: Start returned nil after teardown and the notice is still
\* in the channel: nobody received it.
C13_Witness ==
    /\ pc = "Done"
    /\ startRet = Nil
    /\ Len(teardown) = 2
    /\ Len(sent) = 1
    /\ notices = sent

\* the poll Start is waiting for is one the model does not let return
PollBlocked == pc = "GetMessages" /\ nPolls = MaxPolls

\* C17: once ctx is cancelled, and as long as the external calls return,
\* Start eventually returns.  (Checked under FairSpec.)
C17_CancelledStartReturns ==
    (ctxDone /\ ~PollBlocked) ~> (pc = "Done")

\* C18 (as claimed): once ctx is cancelled, Start sends no notice.
C18_NoSendAfterCancel ==
    [][ctxDone => sent' = sent]_vars

\* C18 (amended): once ctx is cancelled and Start is at the head of the
\* loop or behind it, it sends no notice and does nothing but teardown; the
\* items of a batch polled in an iteration that began before the
\* cancellation are still processed and the first that passes is sent.
C18_NoSendAfterBoundary ==
    [][ /\ (ctxDone /\ pc \in {"Select", "Deferred", "Done"}) =>
             /\ sent' = sent
             /\ pc' \in {pc, "Deferred", "Done"}
             /\ nPolls' = nPolls
        /\ (ctxDone /\ pc = "CheckTransition" /\ PassesFilter(CurrentItem) /\ pc' # pc) =>
             pc' = "Send"
        /\ (ctxDone /\ pc = "Send" /\ pc' # pc) => sent' = <<NoticeFor(CurrentItem)>> ]_vars

\* C18 witness: ctx is cancelled, the item Start is at has passed both
\* tests, and Start is at the send.
C18_Witness ==
    /\ ctxDone
    /\ pc = "Send"
    /\ PassesFilter(CurrentItem)
    /\ sent = <<>>

(***************************************************************************)
(* Properties of autoscalingTerminationNotice.Handle (checked under        *)
(* HandleSpec).                                                            *)
(***************************************************************************)
\* the positions of calls holding a call of the given name
CallsOf(name) == { i \in 1..Len(calls) : calls[i].call = name }

\* Handle has not yet got the result of the user handler
BeforeHandlerReturn ==
    hpc \in {"DeferComplete", "NewTicker", "Go", "Execute", "Executing"}

\* C3: Handle makes the completion call exactly once, with result CONTINUE
\* and the group, hook, instance and token of the notice, whatever the user
\* handler returned, and never before the user handler has returned.
C3_CompleteExactlyOnce ==
    /\ Cardinality(CallsOf("CompleteLifecycleAction")) <= 1
    /\ BeforeHandlerReturn => CallsOf("CompleteLifecycleAction") = {}
    /\ \A i \in CallsOf("CompleteLifecycleAction") :
         /\ calls[i].LifecycleActionResult = "CONTINUE"
         /\ calls[i].AutoScalingGroupName = notice.message.GroupName
         /\ calls[i].LifecycleHookName = notice.message.HookName
         /\ calls[i].InstanceId = notice.message.InstanceID
         /\ calls[i].LifecycleActionToken = notice.message.ActionToken
    /\ hpc \in {"Done", "Panicked"} =>
         Cardinality(CallsOf("CompleteLifecycleAction")) = 1

\* C3 witness: the user handler gave up on cancellation, and Handle
\* returned after the completion call.
C3_Witness ==
    /\ hpc = "Done"
    /\ execRet = Canceled
    /\ Cardinality(CallsOf("CompleteLifecycleAction")) = 1

\* C4: no heartbeat call starts after the completion call, and none is in
\* progress when the completion call is made.
C4_NoHeartbeatAfterComplete ==
    /\ ~overlap
    /\ \A i \in CallsOf("CompleteLifecycleAction") :
         \A j \in CallsOf("RecordLifecycleActionHeartbeat") : j < i

\* C6: Handle returns the value the user handler returned, whatever the
\* completion call and the heartbeat calls returned.
C6_ReturnsHandlerResult ==
    /\ hpc \in {"Deferred", "Completing", "Done"} => handleRet = execRet
    /\ hpc = "Done" => handleRet \in HandlerResults \cup {Canceled}
    /\ BeforeHandlerReturn => handleRet = "none"

\* C6 witness: the handler returned e1, a heartbeat call failed, the
\* completion call failed with e2, and Handle returned.
C6_Witness ==
    /\ hpc = "Done"
    /\ execRet = "e1"
    /\ callErrs.heartbeat >= 1
    /\ callErrs.complete = "e2"

\* C16: the return of a heartbeat call, failed or not, puts the heartbeat
\* goroutine back at the range over ticker.C and touches nothing of Handle
\* or of the user handler; heartbeats go on after a failed one, and Handle
\* still ends with its completion call.
C16_HeartbeatBestEffort ==
    [][ /\ (wpc = "InFlight" /\ wpc' # wpc) =>
             /\ wpc' = "Range"
             /\ UNCHANGED <<hpc, hdefers, execRet, handleRet, ctxDone, ticker, tickerC>>
        /\ (callErrs.heartbeat >= 1 /\ hpc' = "Done") =>
             Cardinality({ i \in 1..Len(calls') :
                             calls'[i].call = "CompleteLifecycleAction" }) = 1
        /\ (wpc = "Range" /\ tickerC > 0 /\ wpc' # wpc) => wpc' = "Heartbeat" ]_vars

\* C16 witness: the first heartbeat call failed while the user handler was
\* executing, a second one was made after it, the handler returned nil and
\* Handle returned after the completion call.
C16_Witness ==
    /\ hpc = "Done"
    /\ execRet = Nil
    /\ handleRet = Nil
    /\ Len(calls) = 3
    /\ calls[1].call = "RecordLifecycleActionHeartbeat"
    /\ calls[2].call = "RecordLifecycleActionHeartbeat"
    /\ calls[3].call = "CompleteLifecycleAction"
    /\ callErrs.heartbeat = 2

\* C20: after Handle has returned, the heartbeat goroutine eventually
\* exits.  (Checked under FairHandleSpec.)
C20_WorkerTerminates ==
    (hpc = "Done") ~> (wpc \notin {"Range", "Heartbeat", "InFlight"})
====
